---- MODULE Spec2Model ----
(***************************************************************************)
(* Model of research/iot.py: the cyclic smart-farm pipeline                *)
(*   read_sensors -> send_mqtt -> analyze_data -> control_actuators ->     *)
(*   business_report -> cloud_sync -> cycle += 1 -> time.sleep(5)          *)
(* run by the module-level `while True` loop inside                        *)
(* `try: ... except KeyboardInterrupt`.                                    *)
(*                                                                         *)
(* Numbers.  Sensor values are floats rounded to one decimal place; they   *)
(* are modelled as integers in tenths (25.0 is 250).  The draws of         *)
(* random.uniform before rounding are integers in hundredths (25.0 is      *)
(* 2500).  crop_stress is a float in [0,1]; it is modelled as an integer   *)
(* in hundredths (0.7 is 70).  dew_point and heat_index are in tenths.     *)
(*                                                                         *)
(* Granularity.  One action per statement of the loop body (each stage     *)
(* function is one action, the whole function).  KeyboardInterrupt is      *)
(* delivered between two statements of the loop body.  The daemon thread   *)
(* running client.loop_forever (iot.py:36) interleaves with the loop.      *)
(***************************************************************************)
EXTENDS Integers, Sequences, FiniteSets, TLC

VARIABLES
    driver,         \* "Running" | "Stopped" (KeyboardInterrupt caught) | "Crashed" (uncaught exception)
    pc,             \* the statement of the loop body that runs next
    cycle,          \* cycle (iot.py:113)
    sensor_data,    \* sensor_data of the loop (iot.py:121)
    processed_data, \* processed_data of the loop (iot.py:128)
    actuators,      \* actuators (iot.py:39)
    history,        \* history (iot.py:40)
    local_db,       \* local_db (iot.py:41)
    summaries,      \* the Business Reports printed so far (iot.py:100-103)
    sync_reports,   \* the Cloud Sync lines printed so far (iot.py:109)
    publish_rc,     \* outcome of the last client.publish call (iot.py:59)
    outbox,         \* TRUE iff a message accepted by client.publish is still unsent by the loop thread
    error           \* the exception that ended the process, if any

vars == <<driver, pc, cycle, sensor_data, processed_data, actuators, history,
          local_db, summaries, sync_reports, publish_rc, outbox, error>>

----------------------------------------------------------------------------
(* Bounds of the model *)

\* number of cycles started under Spec
MaxCycles == 2
\* number of cycles started under SpecCadence
MaxCadenceCycles == 10
\* number of cycles started under SpecInject
MaxInjectCycles == 2
\* number of cycles started under SpecEdge
MaxEdgeCycles == 1

----------------------------------------------------------------------------
(* Enums and constants, iot.py:11-42 *)

\* SensorType, in definition order (the iteration order of SENSORS)
SensorOrder ==
    <<"TEMPERATURE", "SOIL_MOISTURE", "LIGHT_INTENSITY", "CO2_LEVEL", "HUMIDITY">>

SensorType == {SensorOrder[i] : i \in 1..Len(SensorOrder)}

ActuatorType == {"IRRIGATION", "COOLING", "VENTILATION", "FERTILIZER_DOSER"}

\* SENSORS, min and max in tenths ("C" stands for the degree-Celsius unit string)
SENSORS ==
    [TEMPERATURE     |-> [min |-> 200,  max |-> 300,   unit |-> "C"],
     SOIL_MOISTURE   |-> [min |-> 300,  max |-> 700,   unit |-> "%"],
     LIGHT_INTENSITY |-> [min |-> 0,    max |-> 1000,  unit |-> "lux"],
     CO2_LEVEL       |-> [min |-> 3000, max |-> 10000, unit |-> "ppm"],
     HUMIDITY        |-> [min |-> 400,  max |-> 800,   unit |-> "%"]]

cloud_sync_interval == 5

\* `len(history) % 5` of business_report
ReportEvery == 5

\* the thresholds of control_actuators and analyze_data
HeatIndexLimit == 300   \* heat_index > 30
DewPointLimit == 250    \* dew_point > 25
Co2Limit == 4000        \* CO2 value < 400
StressLimit == 70       \* crop_stress > 0.7

\* time.sleep(5): seconds between two cycles
SleepSeconds == 5

----------------------------------------------------------------------------
(* Inputs: the values random.uniform may deliver, and client.publish *)

\* draws (hundredths) per sensor under Spec: both sides and the edge of
\* every threshold of control_actuators
Samples ==
    [TEMPERATURE     |-> {2500, 2900, 3000},
     SOIL_MOISTURE   |-> {5000},
     LIGHT_INTENSITY |-> {5000},
     CO2_LEVEL       |-> {39990, 40000},
     HUMIDITY        |-> {5000, 8000}]

\* crop_stress draws (hundredths) under Spec: 0.70 and 0.71
StressDraws == {70, 71}

\* one batch per cycle under SpecCadence, two stress draws
CadenceSamples ==
    [TEMPERATURE     |-> {2500},
     SOIL_MOISTURE   |-> {5000},
     LIGHT_INTENSITY |-> {5000},
     CO2_LEVEL       |-> {40000},
     HUMIDITY        |-> {5000}]

CadenceStressDraws == {30, 90}

\* draws of the batches handed to the pipeline under SpecInject
InjectSamples ==
    [TEMPERATURE     |-> {2500, 3000},
     SOIL_MOISTURE   |-> {5000},
     LIGHT_INTENSITY |-> {5000},
     CO2_LEVEL       |-> {39990},
     HUMIDITY        |-> {8000}]

InjectStressDraws == {71}

\* variant: the upper end of the draw one unit too high
UniformRangePadded(s, x) ==
    10 * SENSORS[s].min <= x /\ x <= 10 * (SENSORS[s].max + 10)

\* random.uniform(params["min"], params["max"]) can deliver x (hundredths)
UniformRange(s, x) ==
    10 * SENSORS[s].min <= x /\ x <= 10 * SENSORS[s].max

\* all assignments of one sampled draw to every sensor
Draws(samples) ==
    {v \in [SensorType -> UNION {samples[s] : s \in SensorType}] :
        \A s \in SensorType : v[s] \in samples[s] /\ UniformRange(s, v[s])}

\* the draws under Spec: of the sampled temperatures and humidities the pairs
\* (25.0, 50.0), (29.0, 80.0) and (30.0, 80.0), which give heat_index 30.0
\* and dew_point 25.0 exactly and both above
ThresholdDraws ==
    {d \in Draws(Samples) : d["HUMIDITY"] = 8000 <=> d["TEMPERATURE"] > 2500}

\* the middle of every range: temperature 25.0 and humidity 60.0 among them
MidDraw == [s \in SensorType |-> 5 * (SENSORS[s].min + SENSORS[s].max)]

\* points just outside, just inside and near the two ends of a sensor's range
EdgePoints(s) ==
    {10 * SENSORS[s].min - 6, 10 * SENSORS[s].min + 4,
     10 * SENSORS[s].max - 5, 10 * SENSORS[s].max + 6}

\* draws under SpecEdge: the middle draw; the middle draw with one sensor
\* moved to a point near an end of its range that random.uniform can
\* deliver; and the middle draw with humidity 40.5, for which
\* temp + humidity * 0.1 is 29.05
EdgeDraws ==
    {MidDraw, [MidDraw EXCEPT !["HUMIDITY"] = 4050]} \cup
    UNION {{[MidDraw EXCEPT ![s] = x] : x \in {y \in EdgePoints(s) : UniformRange(s, y)}} :
           s \in SensorType}

\* crop_stress draws under SpecEdge: the two ends of random.uniform(0, 1)
EdgeStressDraws == {0, 100}

\* client.publish: returns success, returns an error code, or raises
PublishOutcomes == {"ok", "rc_error", "raise"}

----------------------------------------------------------------------------
(* read_sensors, iot.py:46-54 *)

\* datetime.now() at the head of a cycle: the loop sleeps SleepSeconds per cycle
Now == SleepSeconds * cycle

\* round(x, 1) of a value given exactly in hundredths, result in tenths.
\* Away from a tie the nearest tenth.  At an exact tie (a 5 in the hundredths)
\* the float lies just above or just below the tie, so Python yields
\* either neighbour depending on the operands: both are possible outcomes.
Round1(hundredths) ==
    LET lo == hundredths \div 10
        r  == hundredths % 10
    IN IF r < 5 THEN {lo}
       ELSE IF r > 5 THEN {lo + 1}
       ELSE {lo, lo + 1}

\* round(random.uniform(...), 1) for every sensor, given the draws
Rounded(draw) ==
    LET R(i) == Round1(draw[SensorOrder[i]])
    IN  {[s \in SensorType |-> t[CHOOSE i \in 1..Len(SensorOrder) : SensorOrder[i] = s]] :
            t \in R(1) \X R(2) \X R(3) \X R(4) \X R(5)}

\* variant: datetime.now() taken anew for every reading
read_sensors_stamp_each(draw, timestamp) ==
    {[i \in 1..Len(SensorOrder) |->
        [sensor_type |-> SensorOrder[i],
         value       |-> vals[SensorOrder[i]],
         unit        |-> SENSORS[SensorOrder[i]].unit,
         timestamp   |-> timestamp + i - 1]] : vals \in Rounded(draw)}

\* the list comprehension over SENSORS.items(): one reading per sensor, in
\* SENSORS order, all with the one timestamp taken before the comprehension;
\* the batches read_sensors can return for the given draws
read_sensors(draw, timestamp) ==
    {[i \in 1..Len(SensorOrder) |->
        [sensor_type |-> SensorOrder[i],
         value       |-> vals[SensorOrder[i]],
         unit        |-> SENSORS[SensorOrder[i]].unit,
         timestamp   |-> timestamp]] : vals \in Rounded(draw)}

\* a batch without the readings of the sensor types in `missing`
RECURSIVE Without(_, _)
Without(data, missing) ==
    IF data = <<>> THEN <<>>
    ELSE IF Head(data).sensor_type \in missing
         THEN Without(Tail(data), missing)
         ELSE <<Head(data)>> \o Without(Tail(data), missing)

----------------------------------------------------------------------------
(* analyze_data, iot.py:62-80 *)

\* `d for d in data if d["sensor_type"] == kind` has an element
HasReading(data, kind) == \E i \in 1..Len(data) : data[i].sensor_type = kind

\* next(d["value"] for d in data if d["sensor_type"] == kind): the first match
ReadingValue(data, kind) ==
    LET i == CHOOSE j \in 1..Len(data) :
                 /\ data[j].sensor_type = kind
                 /\ \A k \in 1..(j - 1) : data[k].sensor_type # kind
    IN data[i].value

\* temp - ((100 - humidity) / 5), exactly, in hundredths
DewPointExact(temp, humidity) == 10 * temp - 2 * (1000 - humidity)

\* variant: humidity * 0.01
HeatIndexHundredth(temp, humidity) == 10 * temp + humidity \div 10

\* temp + humidity * 0.1, exactly, in hundredths
HeatIndexExact(temp, humidity) == 10 * temp + humidity

\* variant: crop_stress >= 0.7
irrigation_needed_ge(crop_stress) == crop_stress >= StressLimit

\* crop_stress > 0.7
irrigation_needed(crop_stress) == crop_stress > StressLimit

\* the first of the three lookups of analyze_data that raises StopIteration
AnalyzeMissing(data) ==
    IF ~HasReading(data, "TEMPERATURE") THEN "TEMPERATURE"
    ELSE IF ~HasReading(data, "HUMIDITY") THEN "HUMIDITY"
    ELSE IF ~HasReading(data, "SOIL_MOISTURE") THEN "SOIL_MOISTURE"
    ELSE "none"

\* the results analyze_data can return for a batch and a crop_stress draw
analyze_data(data, crop_stress) ==
    LET temp     == ReadingValue(data, "TEMPERATURE")
        humidity == ReadingValue(data, "HUMIDITY")
    IN { [raw_data    |-> data,
          metrics     |-> [dew_point |-> dp, heat_index |-> hi],
          predictions |-> [crop_stress_risk  |-> crop_stress,
                           irrigation_needed |-> irrigation_needed(crop_stress),
                           optimal_watering  |->
                               IF crop_stress > StressLimit THEN "ASAP" ELSE "6h"]] :
         dp \in Round1(DewPointExact(temp, humidity)),
         hi \in Round1(HeatIndexExact(temp, humidity)) }

----------------------------------------------------------------------------
(* control_actuators, iot.py:82-94 *)

\* variant: the comparisons of lines 87 and 89 not strict
RulesBeforeCo2NonStrict(pd, acts) ==
    [a \in ActuatorType |->
        CASE a = "IRRIGATION"  -> acts[a] \/ pd.predictions.irrigation_needed
          [] a = "COOLING"     -> acts[a] \/ pd.metrics.heat_index >= HeatIndexLimit
          [] a = "VENTILATION" -> acts[a] \/ pd.metrics.dew_point >= DewPointLimit
          [] OTHER             -> acts[a]]

\* variant: irrigation also on a soil moisture below 40 %
RulesBeforeCo2SoilRule(pd, acts) ==
    [a \in ActuatorType |->
        CASE a = "IRRIGATION"  -> \/ acts[a]
                                  \/ pd.predictions.irrigation_needed
                                  \/ ReadingValue(pd.raw_data, "SOIL_MOISTURE") < 400
          [] a = "COOLING"     -> acts[a] \/ pd.metrics.heat_index > HeatIndexLimit
          [] a = "VENTILATION" -> acts[a] \/ pd.metrics.dew_point > DewPointLimit
          [] OTHER             -> acts[a]]

\* the three rules of lines 85-90, which need no CO2 reading
RulesBeforeCo2(pd, acts) ==
    [a \in ActuatorType |->
        CASE a = "IRRIGATION"  -> acts[a] \/ pd.predictions.irrigation_needed
          [] a = "COOLING"     -> acts[a] \/ pd.metrics.heat_index > HeatIndexLimit
          [] a = "VENTILATION" -> acts[a] \/ pd.metrics.dew_point > DewPointLimit
          [] OTHER             -> acts[a]]

\* variant: the rule of lines 91-92 flips the doser instead of switching it on
Co2RuleToggle(pd, acts) ==
    [acts EXCEPT !["FERTILIZER_DOSER"] =
        IF ReadingValue(pd.raw_data, "CO2_LEVEL") < Co2Limit THEN ~@ ELSE @]

\* variant: the comparison of line 91 not strict
Co2RuleNonStrict(pd, acts) ==
    [acts EXCEPT !["FERTILIZER_DOSER"] =
        @ \/ ReadingValue(pd.raw_data, "CO2_LEVEL") <= Co2Limit]

\* the rule of lines 91-92
Co2Rule(pd, acts) ==
    [acts EXCEPT !["FERTILIZER_DOSER"] =
        @ \/ ReadingValue(pd.raw_data, "CO2_LEVEL") < Co2Limit]

\* variant: every rule assigns its condition (`actuators[X] = condition`)
control_actuators_assign(pd, acts) ==
    [a \in ActuatorType |->
        CASE a = "IRRIGATION"  -> pd.predictions.irrigation_needed
          [] a = "COOLING"     -> pd.metrics.heat_index > HeatIndexLimit
          [] a = "VENTILATION" -> pd.metrics.dew_point > DewPointLimit
          [] OTHER             -> ReadingValue(pd.raw_data, "CO2_LEVEL") < Co2Limit]

\* actuators after a call that returns
control_actuators(pd, acts) == Co2Rule(pd, RulesBeforeCo2(pd, acts))

\* the actuators in the order of their `if` statements, lines 85, 87, 89, 91
RuleOrder == <<"IRRIGATION", "COOLING", "VENTILATION", "FERTILIZER_DOSER">>

\* the `if` statements a call can get through: the lookup of line 91 raises
\* on a batch without CO2 reading
RulesToRun(pd) == IF HasReading(pd.raw_data, "CO2_LEVEL") THEN 4 ELSE 3

\* actuators when the call is cut short after its first n `if` statements
RulesCut(pd, acts, n) ==
    LET all == IF HasReading(pd.raw_data, "CO2_LEVEL")
               THEN control_actuators(pd, acts)
               ELSE RulesBeforeCo2(pd, acts)
    IN  [a \in ActuatorType |->
            IF \E i \in 1..n : RuleOrder[i] = a THEN all[a] ELSE acts[a]]

----------------------------------------------------------------------------
(* business_report, iot.py:96-103, and cloud_sync, iot.py:105-109 *)

\* variant: history capped at the last ReportEvery entries
business_report_capped(h, pd) ==
    IF Len(h) >= ReportEvery THEN Append(Tail(h), pd) ELSE Append(h, pd)

\* history after history.append(processed_data)
business_report(h, pd) == Append(h, pd)

\* variant: only the records that call for irrigation are buffered
cloud_sync_actionable(db, pd) ==
    IF pd.predictions.irrigation_needed THEN Append(db, pd) ELSE db

\* local_db after local_db.append(data)
cloud_sync(db, pd) == Append(db, pd)

\* h[-3:]
LastThree(h) == SubSeq(h, IF Len(h) > 3 THEN Len(h) - 2 ELSE 1, Len(h))

\* the Business Report printed for history h
Summary(h) ==
    [header             |-> "Business Report",
     totalCount         |-> Len(h),
     recentStressLevels |->
         [i \in 1..Len(LastThree(h)) |-> LastThree(h)[i].predictions.crop_stress_risk],
     advisory           |-> "Check irrigation valves"]

\* what each of the four print calls of lines 100-103 writes of the report
ReportLines == <<"header", "totalCount", "recentStressLevels", "advisory">>

\* the report of which only the first k print calls have run, 1 <= k <= 4
SummaryCut(h, k) ==
    [f \in {ReportLines[i] : i \in 1..k} |-> Summary(h)[f]]

\* variant: the length tested as it was before the append
ReportDueBeforeAppend(h) == (Len(h) - 1) % ReportEvery = 0

\* len(history) % 5 == 0
ReportDue(h) == Len(h) % ReportEvery = 0

\* variant: a sync whenever at least cloud_sync_interval records are buffered
SyncDueAtLeast(db) == Len(db) >= cloud_sync_interval

\* len(local_db) % cloud_sync_interval == 0
SyncDue(db) == Len(db) % cloud_sync_interval = 0

\* the Cloud Sync line
SyncReport == [uploadedCount |-> cloud_sync_interval]

----------------------------------------------------------------------------
(* State after the module-level initialisation, iot.py:34-42 and 112-113 *)

\* processed_data before the first analyze_data returned
NoResult == [raw_data |-> <<>>]

\* type: the exception class; raised_in: the function whose statement raised;
\* message: what the exception says (StopIteration() carries no argument)
NoError == [type |-> "none", raised_in |-> "none", message |-> ""]

Init ==
    /\ driver = "Running"
    /\ pc = "read"
    /\ cycle = 0
    /\ sensor_data = <<>>
    /\ processed_data = NoResult
    /\ actuators = [a \in ActuatorType |-> FALSE]
    /\ history = <<>>
    /\ local_db = <<>>
    /\ summaries = <<>>
    /\ sync_reports = <<>>
    /\ publish_rc = "none"
    /\ outbox = FALSE
    /\ error = NoError

----------------------------------------------------------------------------
(* The statements of the loop body, iot.py:116-141 *)

\* an exception nothing catches leaves the loop and ends the process:
\* `except KeyboardInterrupt` (iot.py:143) is the only handler
Raise(type, where) ==
    /\ driver' = "Crashed"
    /\ error' = [type |-> type, raised_in |-> where, message |-> ""]
    /\ pc' = pc

\* sensor_data = read_sensors(), iot.py:121, on one of the given draws
Acquire(draws, maxCycles) ==
    /\ driver = "Running"
    /\ pc = "read"
    /\ cycle < maxCycles
    /\ \E draw \in draws : sensor_data' \in read_sensors(draw, Now)
    /\ pc' = "send"
    /\ UNCHANGED <<driver, cycle, processed_data, actuators, history, local_db,
                   summaries, sync_reports, publish_rc, outbox, error>>

\* the pipeline handed a batch that lacks at most one sensor type
Inject(draws, maxCycles) ==
    /\ driver = "Running"
    /\ pc = "read"
    /\ cycle < maxCycles
    /\ \E draw \in draws, missing \in {{}} \cup {{s} : s \in SensorType} :
           \E batch \in read_sensors(draw, Now) :
               sensor_data' = Without(batch, missing)
    /\ pc' = "send"
    /\ UNCHANGED <<driver, cycle, processed_data, actuators, history, local_db,
                   summaries, sync_reports, publish_rc, outbox, error>>

\* send_mqtt(sensor_data), iot.py:125 and 56-60
SendMqtt ==
    /\ driver = "Running"
    /\ pc = "send"
    /\ \E outcome \in PublishOutcomes :
           /\ publish_rc' = outcome
           /\ outbox' = (outbox \/ outcome = "ok")
           /\ IF outcome = "raise"
              THEN Raise("PublishError", "send_mqtt")
              ELSE pc' = "analyze" /\ UNCHANGED <<driver, error>>
    /\ UNCHANGED <<cycle, sensor_data, processed_data, actuators, history,
                   local_db, summaries, sync_reports>>

\* processed_data = analyze_data(sensor_data), iot.py:128 and 62-80
AnalyzeData(stresses) ==
    /\ driver = "Running"
    /\ pc = "analyze"
    /\ IF AnalyzeMissing(sensor_data) # "none"
       THEN /\ Raise("StopIteration", "analyze_data")
            /\ UNCHANGED processed_data
       ELSE /\ \E crop_stress \in stresses :
                   processed_data' \in analyze_data(sensor_data, crop_stress)
            /\ pc' = "control"
            /\ UNCHANGED <<driver, error>>
    /\ UNCHANGED <<cycle, sensor_data, actuators, history, local_db, summaries,
                   sync_reports, publish_rc, outbox>>

\* control_actuators(processed_data), iot.py:132 and 82-94
ControlActuators ==
    /\ driver = "Running"
    /\ pc = "control"
    /\ IF HasReading(processed_data.raw_data, "CO2_LEVEL")
       THEN /\ actuators' = control_actuators(processed_data, actuators)
            /\ pc' = "report"
            /\ UNCHANGED <<driver, error>>
       ELSE \* lines 85-90 have run when the lookup of line 91 raises
            /\ actuators' = RulesBeforeCo2(processed_data, actuators)
            /\ Raise("StopIteration", "control_actuators")
    /\ UNCHANGED <<cycle, sensor_data, processed_data, history, local_db,
                   summaries, sync_reports, publish_rc, outbox>>

\* business_report(processed_data), iot.py:135 and 96-103
BusinessReport ==
    /\ driver = "Running"
    /\ pc = "report"
    /\ history' = business_report(history, processed_data)
    /\ summaries' = IF ReportDue(history')
                    THEN Append(summaries, Summary(history'))
                    ELSE summaries
    /\ pc' = "sync"
    /\ UNCHANGED <<driver, cycle, sensor_data, processed_data, actuators,
                   local_db, sync_reports, publish_rc, outbox, error>>

\* cloud_sync(processed_data), iot.py:138 and 105-109
CloudSync ==
    /\ driver = "Running"
    /\ pc = "sync"
    /\ local_db' = cloud_sync(local_db, processed_data)
    /\ sync_reports' = IF SyncDue(local_db')
                       THEN Append(sync_reports, SyncReport)
                       ELSE sync_reports
    /\ pc' = "incr"
    /\ UNCHANGED <<driver, cycle, sensor_data, processed_data, actuators,
                   history, summaries, publish_rc, outbox, error>>

\* cycle += 1, iot.py:140
IncrCycle ==
    /\ driver = "Running"
    /\ pc = "incr"
    /\ cycle' = cycle + 1
    /\ pc' = "sleep"
    /\ UNCHANGED <<driver, sensor_data, processed_data, actuators, history,
                   local_db, summaries, sync_reports, publish_rc, outbox, error>>

\* variant: read_sensors called once before the loop, not in it
SleepSkipsRead ==
    /\ driver = "Running"
    /\ pc = "sleep"
    /\ pc' = IF cycle = 0 THEN "read" ELSE "send"
    /\ UNCHANGED <<driver, cycle, sensor_data, processed_data, actuators,
                   history, local_db, summaries, sync_reports, publish_rc, outbox,
                   error>>

\* time.sleep(5), iot.py:141, then the next iteration of `while True`
Sleep ==
    /\ driver = "Running"
    /\ pc = "sleep"
    /\ pc' = "read"
    /\ UNCHANGED <<driver, cycle, sensor_data, processed_data, actuators,
                   history, local_db, summaries, sync_reports, publish_rc, outbox,
                   error>>

\* KeyboardInterrupt raised in the try block and caught at iot.py:143-144.
\* The interpreter raises it between any two bytecode instructions, also
\* inside the function the statement at pc calls: that statement is cut short
\* after some or none of its effects (a value it was to return is lost), and
\* the rest of the cycle never runs.  pc stays at the statement that was cut.
KeyboardInterrupt ==
    /\ driver = "Running"
    /\ driver' = "Stopped"
    /\ \/ UNCHANGED <<actuators, history, local_db, summaries, sync_reports,
                       publish_rc, outbox>>
       \/ \* in send_mqtt, after client.publish (line 59)
          /\ pc = "send"
          /\ \E outcome \in PublishOutcomes \ {"raise"} :
                 /\ publish_rc' = outcome
                 /\ outbox' = (outbox \/ outcome = "ok")
          /\ UNCHANGED <<actuators, history, local_db, summaries, sync_reports>>
       \/ \* in control_actuators, after some of its rules
          /\ pc = "control"
          /\ \E n \in 1..RulesToRun(processed_data) :
                 actuators' = RulesCut(processed_data, actuators, n)
          /\ UNCHANGED <<history, local_db, summaries, sync_reports, publish_rc,
                         outbox>>
       \/ \* in business_report, after the append and some of the print calls
          /\ pc = "report"
          /\ history' = business_report(history, processed_data)
          /\ \E k \in 0..(IF ReportDue(history') THEN Len(ReportLines) ELSE 0) :
                 summaries' = IF k = 0 THEN summaries
                              ELSE Append(summaries, SummaryCut(history', k))
          /\ UNCHANGED <<actuators, local_db, sync_reports, publish_rc, outbox>>
       \/ \* in cloud_sync, after the append, before or after the print call
          /\ pc = "sync"
          /\ local_db' = cloud_sync(local_db, processed_data)
          /\ \E printed \in {FALSE} \cup {SyncDue(local_db')} :
                 sync_reports' = IF printed THEN Append(sync_reports, SyncReport)
                                 ELSE sync_reports
          /\ UNCHANGED <<actuators, history, summaries, publish_rc, outbox>>
    /\ UNCHANGED <<pc, cycle, sensor_data, processed_data, error>>

\* variant: the loop thread records the record it has sent in local_db
MqttLoopRecords ==
    /\ driver = "Running"
    /\ outbox
    /\ outbox' \in BOOLEAN
    /\ local_db' = Append(local_db, processed_data)
    /\ UNCHANGED <<driver, pc, cycle, sensor_data, processed_data, actuators,
                   history, summaries, sync_reports, publish_rc, error>>

\* one step of the daemon thread in client.loop_forever (iot.py:36): it sends
\* one message that client.publish has queued; that message was the last
\* unsent one or was not
MqttLoop ==
    /\ driver = "Running"
    /\ outbox
    /\ outbox' \in BOOLEAN
    /\ UNCHANGED <<driver, pc, cycle, sensor_data, processed_data, actuators,
                   history, local_db, summaries, sync_reports, publish_rc, error>>

\* the statements after the acquisition
Pipeline(stresses) ==
    \/ SendMqtt
    \/ AnalyzeData(stresses)
    \/ ControlActuators
    \/ BusinessReport
    \/ CloudSync
    \/ IncrCycle
    \/ Sleep
    \/ KeyboardInterrupt
    \/ MqttLoop

\* the program
Next == Acquire(ThresholdDraws, MaxCycles) \/ Pipeline(StressDraws)

Spec == Init /\ [][Next]_vars

\* the program over long runs of one sampled batch
NextCadence ==
    Acquire(Draws(CadenceSamples), MaxCadenceCycles) \/ Pipeline(CadenceStressDraws)

SpecCadence == Init /\ [][NextCadence]_vars

\* the pipeline on batches that may lack a sensor type
NextInject ==
    Inject(Draws(InjectSamples), MaxInjectCycles) \/ Pipeline(InjectStressDraws)

SpecInject == Init /\ [][NextInject]_vars

\* the program on draws at the ends of the sensor ranges
NextEdge == Acquire(EdgeDraws, MaxEdgeCycles) \/ Pipeline(EdgeStressDraws)

SpecEdge == Init /\ [][NextEdge]_vars

----------------------------------------------------------------------------
(* Steps and states the properties speak about *)

\* a step that is a returning call of control_actuators
ControlStep == pc = "control" /\ pc' = "report"

\* a step that is a returning call of business_report
ReportStep == pc = "report" /\ pc' = "sync"

\* a step that is a returning call of cloud_sync
SyncStep == pc = "sync" /\ pc' = "incr"

\* a step of the network thread: the loop stays where it is and goes on
ThreadStep == pc' = pc /\ driver' = driver

\* the CO2 reading of an analysis result
Co2Of(pd) == ReadingValue(pd.raw_data, "CO2_LEVEL")

\* every actuator state, reachable or not
ActuatorStates == [ActuatorType -> BOOLEAN]

----------------------------------------------------------------------------
(* C1 *)

\* C1: an actuator that is on stays on; no step of the program switches an
\* actuator from true to false.
C1_ActuatorLatch ==
    [][\A a \in ActuatorType : actuators[a] => actuators'[a]]_vars

\* control_actuators has run in a later cycle whose readings call for no
\* cooling and no fertilizer, and both are still on from the cycle before
C1_Witness ==
    /\ pc = "report"
    /\ cycle = 1
    /\ processed_data.metrics.heat_index <= 300
    /\ Co2Of(processed_data) >= 4000
    /\ actuators["COOLING"]
    /\ actuators["FERTILIZER_DOSER"]

----------------------------------------------------------------------------
(* C2 *)

\* C2: after a call of control_actuators every actuator is on iff it was on
\* before the call or its own condition holds: IRRIGATION on
\* irrigation_needed, COOLING on heat_index > 30, VENTILATION on
\* dew_point > 25, FERTILIZER_DOSER on a CO2 reading < 400, all strict.
\* Stated of the call the loop makes and, for the analysis result of that
\* call, of every prior actuator state.
C2_RuleTable ==
    [][ControlStep =>
        /\ actuators'["IRRIGATION"] =
               (actuators["IRRIGATION"] \/ processed_data.predictions.irrigation_needed)
        /\ actuators'["COOLING"] =
               (actuators["COOLING"] \/ processed_data.metrics.heat_index > 300)
        /\ actuators'["VENTILATION"] =
               (actuators["VENTILATION"] \/ processed_data.metrics.dew_point > 250)
        /\ actuators'["FERTILIZER_DOSER"] =
               (actuators["FERTILIZER_DOSER"] \/ Co2Of(processed_data) < 4000)
        /\ DOMAIN actuators' = ActuatorType
        /\ \A s \in ActuatorStates :
               LET t == control_actuators(processed_data, s)
               IN /\ t["IRRIGATION"] =
                         (s["IRRIGATION"] \/ processed_data.predictions.irrigation_needed)
                  /\ t["COOLING"] =
                         (s["COOLING"] \/ processed_data.metrics.heat_index > 300)
                  /\ t["VENTILATION"] =
                         (s["VENTILATION"] \/ processed_data.metrics.dew_point > 250)
                  /\ t["FERTILIZER_DOSER"] =
                         (s["FERTILIZER_DOSER"] \/ Co2Of(processed_data) < 4000)]_vars

\* control_actuators has run on a dew point of exactly 25.0 and a CO2 reading
\* of 399.9: ventilation stays off while cooling and the doser go on
C2_Witness ==
    /\ pc = "report"
    /\ processed_data.metrics.dew_point = 250
    /\ processed_data.metrics.heat_index > 300
    /\ Co2Of(processed_data) = 3999
    /\ ~processed_data.predictions.irrigation_needed
    /\ ~actuators["VENTILATION"]
    /\ ~actuators["IRRIGATION"]
    /\ actuators["COOLING"]
    /\ actuators["FERTILIZER_DOSER"]

----------------------------------------------------------------------------
(* C3 *)

\* C3: control_actuators is idempotent: applied again with the same analysis
\* result to the state a call has just produced, it yields that same state;
\* and so from every actuator state, for the analysis result of that call.
C3_Idempotent ==
    [][ControlStep =>
        /\ control_actuators(processed_data, actuators') = actuators'
        /\ \A s \in ActuatorStates :
               control_actuators(processed_data, control_actuators(processed_data, s))
                   = control_actuators(processed_data, s)]_vars

\* a first call has switched the doser and irrigation on and left cooling off
C3_Witness ==
    /\ pc = "report"
    /\ cycle = 0
    /\ actuators["FERTILIZER_DOSER"]
    /\ actuators["IRRIGATION"]
    /\ ~actuators["COOLING"]

----------------------------------------------------------------------------
(* C4 *)

\* C4: a call of business_report that returns has printed a Business Report
\* iff the length of history after the append is a positive multiple of 5;
\* the report then carries that length and the crop_stress_risk of the last
\* three entries in append order; nothing of a report is printed by any other
\* step, nor by a call, returning or cut short, that appends to another
\* length.
C4_AggregatorCadence ==
    [][LET n == Len(history')
       IN /\ ReportStep /\ n > 0 /\ n % 5 = 0 =>
                /\ Len(summaries') = Len(summaries) + 1
                /\ SubSeq(summaries', 1, Len(summaries)) = summaries
                /\ summaries'[Len(summaries')].totalCount = n
                /\ summaries'[Len(summaries')].recentStressLevels =
                       <<history'[n - 2].predictions.crop_stress_risk,
                         history'[n - 1].predictions.crop_stress_risk,
                         history'[n].predictions.crop_stress_risk>>
          /\ (ReportStep /\ n % 5 # 0) => summaries' = summaries
          /\ summaries' # summaries =>
                /\ pc = "report"
                /\ history' = Append(history, processed_data)
                /\ n > 0 /\ n % 5 = 0]_vars

\* the second report, printed at length 10, with the stress values of the
\* 8th, 9th and 10th entries in that order
C4_Witness ==
    /\ pc = "sync"
    /\ Len(history) = 10
    /\ Len(summaries) = 2
    /\ summaries[2].totalCount = 10
    /\ summaries[2].recentStressLevels = <<30, 90, 90>>
    /\ history[8].predictions.crop_stress_risk = 30
    /\ history[7].predictions.crop_stress_risk = 90

----------------------------------------------------------------------------
(* C5 *)

\* C5: a call of cloud_sync that returns has printed exactly one Cloud Sync
\* line iff the length of local_db after the append is a positive multiple of
\* cloud_sync_interval (5), and none otherwise; the line reports 5 records;
\* local_db keeps every record, the call only appends to it; the line is
\* printed by no other step, nor by a call, returning or cut short, that
\* appends to another length, so there is never more than one line per 5
\* records.
C5_BatchSyncCadence ==
    [][LET n == Len(local_db')
       IN /\ SyncStep /\ n > 0 /\ n % 5 = 0 =>
                sync_reports' = Append(sync_reports, [uploadedCount |-> 5])
          /\ (SyncStep /\ n % 5 # 0) => sync_reports' = sync_reports
          /\ sync_reports' # sync_reports =>
                /\ pc = "sync"
                /\ local_db' = Append(local_db, processed_data)
                /\ n > 0 /\ n % 5 = 0
          /\ SyncStep => local_db' = Append(local_db, processed_data)
          /\ SyncStep => Len(sync_reports') = n \div 5
          /\ Len(sync_reports') <= n \div 5]_vars

\* the 10th call has printed the second line, and the buffer holds 10 records
C5_Witness ==
    /\ pc = "incr"
    /\ Len(local_db) = 10
    /\ sync_reports = <<[uploadedCount |-> 5], [uploadedCount |-> 5]>>

----------------------------------------------------------------------------
(* C6 *)

\* C6: history and local_db are append-only: every step leaves each of them
\* unchanged or extends it by exactly one element at its end.
C6_AppendOnly ==
    [][/\ \/ history' = history
          \/ /\ Len(history') = Len(history) + 1
             /\ SubSeq(history', 1, Len(history)) = history
       /\ \/ local_db' = local_db
          \/ /\ Len(local_db') = Len(local_db) + 1
             /\ SubSeq(local_db', 1, Len(local_db)) = local_db]_vars

\* both sequences have grown past the length at which a report was printed
C6_Witness ==
    /\ Len(history) = 6
    /\ Len(local_db) = 6
    /\ Len(summaries) = 1
    /\ Len(sync_reports) = 1
    /\ history[1].predictions.crop_stress_risk # history[6].predictions.crop_stress_risk

----------------------------------------------------------------------------
(* C7 *)

\* C7: a failure of the transport stage is not fatal: after send_mqtt failed
\* (client.publish returned an error code or raised) the process has not
\* been ended by it; the cycle goes on with analyze_data.
C7_TransportFailureNonFatal ==
    publish_rc \in {"rc_error", "raise"} =>
        ~(driver = "Crashed" /\ error.raised_in = "send_mqtt")

----------------------------------------------------------------------------
(* C8 *)

\* the sensor types analyze_data and control_actuators look up
RequiredSensors == {"TEMPERATURE", "HUMIDITY", "SOIL_MOISTURE", "CO2_LEVEL"}

\* the batch of the cycle in flight lacks a reading the pipeline looks up
Malformed == pc # "read" /\ \E k \in RequiredSensors : ~HasReading(sensor_data, k)

\* C8: a cycle whose batch lacks the reading of TEMPERATURE, HUMIDITY,
\* SOIL_MOISTURE or CO2_LEVEL changes nothing: no step of such a cycle,
\* the failing one included, changes actuators, history or local_db.
C8_MalformedBatchLeavesState ==
    [][Malformed => UNCHANGED <<actuators, history, local_db>>]_vars

----------------------------------------------------------------------------
(* C9 *)

\* C9: analyze_data returns a result only for a batch with a reading of each
\* of the four sensor types; for a batch that lacks one, the failure is
\* raised in analyze_data itself, before any later stage runs.
C9_AnalyzePrecondition ==
    /\ pc \in {"control", "report", "sync", "incr", "sleep"} =>
           \A k \in RequiredSensors : HasReading(processed_data.raw_data, k)
    /\ (driver = "Crashed" /\ Malformed /\ error.type = "StopIteration") =>
           error.raised_in = "analyze_data"

----------------------------------------------------------------------------
(* C10 *)

\* C10: the driver is never Stopped in a state where only some of
\* control_actuators, business_report and cloud_sync have run for the
\* current cycle.
C10_NoMidCycleAbort ==
    driver = "Stopped" => pc \notin {"report", "sync"}

----------------------------------------------------------------------------
(* C11 *)

\* C11: the loop is ended by the cancellation signal only: the driver is
\* Running, or Stopped by KeyboardInterrupt; no stage failure ends it.
C11_DriverStateMachine ==
    driver \in {"Running", "Stopped"}

----------------------------------------------------------------------------
(* C12 *)

\* the statement that follows each statement of the loop body
StageAfter ==
    [read |-> "send", send |-> "analyze", analyze |-> "control",
     control |-> "report", report |-> "sync", sync |-> "incr",
     incr |-> "sleep", sleep |-> "read"]

\* C12: the stages run in the order read_sensors, send_mqtt, analyze_data,
\* control_actuators, business_report, cloud_sync, none twice in a cycle, on
\* the batch and the analysis result of that cycle; read_sensors of the next
\* cycle starts only when cloud_sync has recorded every cycle before it.
C12_StageOrder ==
    [][/\ pc' # pc => pc' = StageAfter[pc]
       /\ (pc = "read" /\ pc' = "send") =>
              /\ Len(history) = cycle
              /\ Len(local_db) = cycle
              /\ sensor_data' # sensor_data
       /\ pc # "read" => sensor_data' = sensor_data
       /\ (pc = "analyze" /\ pc' = "control") => processed_data'.raw_data = sensor_data
       /\ pc # "analyze" => processed_data' = processed_data
       /\ ReportStep => history' = Append(history, processed_data)
       /\ SyncStep => local_db' = Append(local_db, processed_data)
       /\ driver' = "Running" =>
              /\ Len(history') = cycle' + (IF pc' \in {"sync", "incr"} THEN 1 ELSE 0)
              /\ Len(local_db') = cycle' + (IF pc' = "incr" THEN 1 ELSE 0)
       /\ cycle' <= Len(local_db')
       /\ Len(local_db') <= Len(history')
       /\ Len(history') <= cycle' + 1]_vars

\* the second cycle has run all its stages: both buffers end with the
\* analysis result of this cycle's batch, after the one of the first cycle
C12_Witness ==
    /\ pc = "incr"
    /\ cycle = 1
    /\ processed_data.raw_data = sensor_data
    /\ Len(history) = 2
    /\ history[2] = processed_data
    /\ local_db = history
    /\ history[1].raw_data[1].timestamp < history[2].raw_data[1].timestamp

----------------------------------------------------------------------------
(* C13 *)

\* the batches the loop has produced so far: the current one and the ones
\* kept in history
ProducedBatches ==
    {sensor_data} \cup {history[i].raw_data : i \in 1..Len(history)}

\* C13: every reading produced by read_sensors, after rounding to one
\* decimal, lies within the range SENSORS gives for its sensor type, both ends
\* included, and carries the unit SENSORS gives for that type.
C13_ReadingRange ==
    \A data \in ProducedBatches : \A i \in 1..Len(data) :
        /\ SENSORS[data[i].sensor_type].min <= data[i].value
        /\ data[i].value <= SENSORS[data[i].sensor_type].max
        /\ data[i].unit = SENSORS[data[i].sensor_type].unit

\* a draw just below the upper end of the temperature range was rounded up to
\* the end itself, 30.0
C13_Witness ==
    /\ pc = "send"
    /\ Len(sensor_data) = 5
    /\ sensor_data[1].sensor_type = "TEMPERATURE"
    /\ sensor_data[1].value = SENSORS["TEMPERATURE"].max
    /\ sensor_data[1].unit = SENSORS["TEMPERATURE"].unit

----------------------------------------------------------------------------
(* C14 *)

\* C14: every batch returned by read_sensors holds exactly one reading for
\* each of the five sensor types, none twice and none left out, and all its
\* readings carry the same timestamp.
C14_BatchShape ==
    \A data \in ProducedBatches \ {<<>>} :
        /\ Len(data) = Cardinality(SensorType)
        /\ \A s \in SensorType :
               Cardinality({i \in 1..Len(data) : data[i].sensor_type = s}) = 1
        /\ \A i, j \in 1..Len(data) : data[i].timestamp = data[j].timestamp

\* the batch of the second cycle: five readings of five types, all stamped
\* with the time of that cycle
C14_Witness ==
    /\ pc = "send"
    /\ cycle = 1
    /\ {sensor_data[i].sensor_type : i \in 1..Len(sensor_data)} = SensorType
    /\ \A i \in 1..Len(sensor_data) : sensor_data[i].timestamp = SleepSeconds

----------------------------------------------------------------------------
(* C15, C16 *)

\* the analysis results the loop has produced so far: the current one and
\* the ones kept in history
ProducedResults ==
    {processed_data} \cup {history[i] : i \in 1..Len(history)}

\* C15: in every result of analyze_data, irrigation_needed is true exactly
\* when crop_stress_risk is above 0.7, and optimal_watering is "ASAP" exactly
\* then and "6h" otherwise; a crop_stress_risk of exactly 0.7 gives
\* irrigation_needed false and "6h".
C15_StressThreshold ==
    \A r \in ProducedResults \ {NoResult} :
        /\ r.predictions.irrigation_needed = (r.predictions.crop_stress_risk > 70)
        /\ r.predictions.optimal_watering =
               (IF r.predictions.crop_stress_risk > 70 THEN "ASAP" ELSE "6h")
        /\ r.predictions.irrigation_needed = (r.predictions.optimal_watering = "ASAP")
        /\ r.predictions.crop_stress_risk = 70 =>
               /\ ~r.predictions.irrigation_needed
               /\ r.predictions.optimal_watering = "6h"

\* analyze_data has returned a result whose crop_stress_risk is exactly 0.7
C15_Witness ==
    /\ pc = "control"
    /\ processed_data # NoResult
    /\ processed_data.predictions.crop_stress_risk = 70
    /\ ~processed_data.predictions.irrigation_needed
    /\ processed_data.predictions.optimal_watering = "6h"

\* the distance between two integers
Distance(a, b) == IF a >= b THEN a - b ELSE b - a

\* the metrics analyze_data gives for any batch and any stress draw of this
\* specification that has the given temperature and humidity
MetricsFor(temp, humidity) ==
    {p.metrics :
        p \in UNION {analyze_data(data, stress) :
                        data \in {d \in UNION {read_sensors(draw, Now) : draw \in EdgeDraws} :
                                     /\ ReadingValue(d, "TEMPERATURE") = temp
                                     /\ ReadingValue(d, "HUMIDITY") = humidity},
                        stress \in EdgeStressDraws}}

\* C16: the metrics of a result depend on the temperature and the humidity of
\* its batch only: dew_point is temperature - (100 - humidity) / 5 and
\* heat_index is temperature + humidity * 0.1, each rounded to the nearest
\* tenth, whatever the other readings and the stress draw are; 25.0 and 60.0
\* give 17.0 and 31.0.  (Where the exact heat index lies halfway between two
\* tenths, the nearest tenth is either of them.)
C16_DerivedMetrics ==
    \A r \in ProducedResults \ {NoResult} :
        LET temp     == ReadingValue(r.raw_data, "TEMPERATURE")
            humidity == ReadingValue(r.raw_data, "HUMIDITY")
        IN  /\ Distance(10 * r.metrics.dew_point, 10 * temp - 2 * (1000 - humidity)) <= 5
            /\ Distance(10 * r.metrics.heat_index, 10 * temp + humidity) <= 5
            /\ (10 * temp - 2 * (1000 - humidity)) % 10 = 0 =>
                   10 * r.metrics.dew_point = 10 * temp - 2 * (1000 - humidity)
            /\ (10 * temp + humidity) % 10 = 0 =>
                   10 * r.metrics.heat_index = 10 * temp + humidity
            /\ (temp = 250 /\ humidity = 600) =>
                   r.metrics.dew_point = 170 /\ r.metrics.heat_index = 310
            /\ (10 * temp + humidity) % 10 # 5 =>
                   MetricsFor(temp, humidity) = {r.metrics}

\* a batch with temperature 25.0 and humidity 60.0 whose CO2 reading is at the
\* upper end of its range, analysed with the highest stress draw, has
\* dew_point 17.0 and heat_index 31.0
C16_Witness ==
    /\ pc = "control"
    /\ processed_data # NoResult
    /\ ReadingValue(processed_data.raw_data, "TEMPERATURE") = 250
    /\ ReadingValue(processed_data.raw_data, "HUMIDITY") = 600
    /\ ReadingValue(processed_data.raw_data, "CO2_LEVEL") = SENSORS["CO2_LEVEL"].max
    /\ processed_data.predictions.crop_stress_risk = 100
    /\ processed_data.metrics.dew_point = 170
    /\ processed_data.metrics.heat_index = 310

----------------------------------------------------------------------------
(* C17 *)

\* the batch with the value of one sensor type replaced
WithValue(data, kind, v) ==
    [i \in DOMAIN data |->
        IF data[i].sensor_type = kind THEN [data[i] EXCEPT !.value = v] ELSE data[i]]

\* the lower end, the middle and the upper end of a sensor's range
RangePoints(kind) ==
    {SENSORS[kind].min, (SENSORS[kind].min + SENSORS[kind].max) \div 2, SENSORS[kind].max}

\* C17: soil moisture and light intensity do not reach the rules: whenever
\* control_actuators runs, a cycle starting from the same actuators whose
\* batch differs in the soil moisture and light intensity values only, with
\* the same stress draw, ends with the same actuators.
C17_DeadInputs ==
    [][ControlStep =>
           \A soil \in RangePoints("SOIL_MOISTURE"), light \in RangePoints("LIGHT_INTENSITY") :
               LET other == WithValue(WithValue(sensor_data, "SOIL_MOISTURE", soil),
                                      "LIGHT_INTENSITY", light)
               IN  {control_actuators(p, actuators) :
                       p \in analyze_data(other, processed_data.predictions.crop_stress_risk)}
                   = {actuators'}]_vars

\* control_actuators has run on a batch with soil moisture 50 % and has left
\* the irrigation off; the same batch with a soil moisture of 30 % is one of
\* the batches compared
C17_Witness ==
    /\ pc = "report"
    /\ cycle = 0
    /\ ReadingValue(sensor_data, "SOIL_MOISTURE") = 500
    /\ ReadingValue(sensor_data, "LIGHT_INTENSITY") = 500
    /\ ~actuators["IRRIGATION"]
    /\ actuators["COOLING"]

----------------------------------------------------------------------------
(* C18 *)

\* C18: actuators is written by control_actuators only, history by
\* business_report only and local_db by cloud_sync only: read_sensors,
\* send_mqtt, analyze_data, the sleep and every step of the MQTT network
\* thread leave all three as they are.
C18_SingleWriter ==
    [][/\ actuators' # actuators => (pc = "control" /\ ~ThreadStep)
       /\ history' # history => (pc = "report" /\ ~ThreadStep)
       /\ local_db' # local_db => (pc = "sync" /\ ~ThreadStep)
       /\ (pc \in {"read", "send", "analyze", "incr", "sleep"} \/ ThreadStep) =>
              UNCHANGED <<actuators, history, local_db>>]_vars

\* the network thread has delivered the message of the first cycle, and the
\* first cycle has switched the cooling on and recorded its result once in
\* each buffer
C18_Witness ==
    /\ pc = "incr"
    /\ cycle = 0
    /\ publish_rc = "ok"
    /\ ~outbox
    /\ actuators["COOLING"]
    /\ Len(history) = 1
    /\ Len(local_db) = 1

----------------------------------------------------------------------------
(* C19, C20 *)

\* between cloud_sync with `cycle += 1` of one cycle and read_sensors of the
\* next
CycleBoundary == pc \in {"sleep", "read"}

\* C19: at every cycle boundary history and local_db both hold one result per
\* finished cycle, the same results in the same order; with
\* cloud_sync_interval = 5 the summary and the cloud sync report are printed
\* in the same cycles: after cycles 5, 10, ... and in no other.
C19_BuffersInLockstep ==
    /\ CycleBoundary =>
           /\ Len(history) = cycle
           /\ Len(local_db) = cycle
           /\ \A i \in 1..cycle : history[i] = local_db[i]
           /\ Len(summaries) = cycle \div 5
           /\ Len(sync_reports) = cycle \div 5
    /\ Len(sync_reports) <= Len(summaries)
    /\ Len(summaries) <= Len(sync_reports) + 1
    /\ Len(summaries) # Len(sync_reports) =>
           /\ (cycle + 1) % 5 = 0
           /\ pc = "sync" \/ (pc = "report" /\ driver = "Stopped")
    /\ \A i \in 1..Len(sync_reports) :
           /\ summaries[i].totalCount = 5 * i
           /\ sync_reports[i].uploadedCount = 5

\* ten cycles are done: the buffers agree on ten results, not all alike, and
\* each report was printed twice
C19_Witness ==
    /\ pc = "sleep"
    /\ cycle = 10
    /\ history = local_db
    /\ Len(local_db) = 10
    /\ history[1].predictions.irrigation_needed
    /\ ~history[2].predictions.irrigation_needed
    /\ Len(summaries) = 2
    /\ Len(sync_reports) = 2

\* the condition of the rule that switches the actuator on, for one result
RuleHeld(a, r) ==
    CASE a = "IRRIGATION"       -> r.predictions.irrigation_needed
      [] a = "COOLING"          -> r.metrics.heat_index > 300
      [] a = "VENTILATION"      -> r.metrics.dew_point > 250
      [] a = "FERTILIZER_DOSER" -> ReadingValue(r.raw_data, "CO2_LEVEL") < 4000

\* C20: at every cycle boundary an actuator is on exactly when the condition
\* of its rule held for some result in history: irrigation_needed for the
\* irrigation, heat_index > 30 for the cooling, dew_point > 25 for the
\* ventilation, a CO2 reading < 400 for the fertilizer doser.
C20_LatchRecordsPast ==
    CycleBoundary =>
        \A a \in ActuatorType :
            actuators[a] <=> \E i \in 1..Len(history) : RuleHeld(a, history[i])

\* after two cycles the cooling and the fertilizer doser are on because of the
\* first cycle alone, and the irrigation and the ventilation, which no cycle
\* called for, are off
C20_Witness ==
    /\ pc = "sleep"
    /\ cycle = 2
    /\ actuators["COOLING"]
    /\ RuleHeld("COOLING", history[1])
    /\ ~RuleHeld("COOLING", history[2])
    /\ actuators["FERTILIZER_DOSER"]
    /\ RuleHeld("FERTILIZER_DOSER", history[1])
    /\ ~RuleHeld("FERTILIZER_DOSER", history[2])
    /\ ~actuators["IRRIGATION"]
    /\ ~actuators["VENTILATION"]

====
